---- MODULE Spec2Model ----
(***************************************************************************)
(* Model of src/bot.py: the marketplace poller monitor() with its helpers  *)
(* fetch_listings, fetch_floor_price, fmt_floor and send_alert.            *)
(*                                                                         *)
(* The file holds two variants of monitor(): the backdrop filter           *)
(* (lines 158-226, policy "Attribute") and the discount filter             *)
(* (lines 389-456, policy "Discount").  The variable policy selects the    *)
(* variant; everything else is shared.                                     *)
(*                                                                         *)
(* Encoding of Python values:                                              *)
(*   - numbers are integers; NONE (-1) stands for Python None / JSON null; *)
(*   - a page is the sequence of the "gift_num" values of its elements:    *)
(*     an identifier 1..NumIds, or NoneId (0) when the key is missing      *)
(*     (g.get gives None);                                                 *)
(*   - everything else about an element (whether it is a JSON object at    *)
(*     all, its other fields) is an input drawn when monitor() reads it;   *)
(*   - strings that the code inspects are sequences of characters.         *)
(***************************************************************************)
EXTENDS Integers, Sequences, FiniteSets, TLC

\* ---------------------------------------------------------------- bounds
NumIds   == 2      \* distinct listing identifiers, besides None
MaxPage  == 2      \* longest page returned by one poll
MaxPrice == 2      \* largest price / floor in the pipeline model
MaxWait  == 6      \* largest retry_after carried by RetryAfter
MaxNum   == 100    \* largest price / floor in the threshold model
MaxName  == 3      \* longest name in the normalisation model

\* ------------------------------------------------------ program constants
POLL_INTERVAL  == 2
TIMEOUT_SLEEP  == 5
THROTTLE_SLEEP == 3

NONE     == -1
NoneId   == 0

Ids      == 1 .. NumIds
Elems    == Ids \cup {NoneId}
SeqsUpTo(S, n) == UNION {[1 .. k -> S] : k \in 0 .. n}
Pages    == SeqsUpTo(Elems, MaxPage)

Min(a, b) == IF a <= b THEN a ELSE b
Max(a, b) == IF a >= b THEN a ELSE b

\* elapsed time is counted up to TimeCap and saturates there
TimeCap  == Max(MaxWait, TIMEOUT_SLEEP) + 1

\* ------------------------------------------------------------ JSON values
\* A JSON value as far as fetch_listings looks at it: a list of records,
\* or something that is not a list (absent key / null, the number 0, a
\* non-empty string).
JList(p)  == [t |-> "list", v |-> p]
JAbsent   == [t |-> "absent", v |-> <<>>]
JZero     == [t |-> "zero", v |-> <<>>]
JStr      == [t |-> "str", v |-> <<>>]
FieldVals == {JList(p) : p \in Pages} \cup {JAbsent, JZero, JStr}

\* Python truthiness of a JSON value
Truthy(j) == \/ j.t = "list" /\ j.v # <<>>
             \/ j.t = "str"

\* Outcome of scraper.post(...) / raise_for_status() / resp.json().  An
\* envelope carries any value under "data"; under "docs" it carries any
\* value when "data" is falsy, and nothing or a string otherwise.
Response(k, l, d, o) == [kind |-> k, list |-> l, data |-> d, docs |-> o]
ListingResponses ==
    {Response(k, <<>>, JAbsent, JAbsent) :
         k \in {"transport_fault", "http_error", "bad_json", "scalar"}}
    \cup {Response("list", p, JAbsent, JAbsent) : p \in Pages}
    \cup {Response("dict", <<>>, d, o) : d \in FieldVals, o \in {JAbsent, JStr}}
    \cup {Response("dict", <<>>, d, o) :
              d \in {JAbsent, JZero, JList(<<>>)}, o \in FieldVals}
NoResp == Response("none", <<>>, JAbsent, JAbsent)

\* Python "a or b"
PyOr(a, b) == IF Truthy(a) THEN a ELSE b

\* fetch_listings: the value returned for a given response
fetch_listings(r) ==
    CASE r.kind = "list" -> JList(r.list)
      [] r.kind = "dict" -> PyOr(r.data, PyOr(r.docs, JList(<<>>)))
      [] OTHER           -> JList(<<>>)


\* ------------------------------------------------------- floor responses
MISSING    == -2                      \* record without a "price" key
FloorVals  == {0, MaxPrice}           \* prices a floor query returns
FloorElems == FloorVals \cup {NONE, MISSING}
FloorPages == SeqsUpTo(FloorElems, 1) \* the query asks for limit 1
FloorFieldVals == {JList(p) : p \in FloorPages} \cup {JAbsent, JZero, JStr}
FloorResponses ==
    {Response(k, <<>>, JAbsent, JAbsent) :
         k \in {"transport_fault", "http_error", "bad_json", "scalar"}}
    \cup {Response("list", p, JAbsent, JAbsent) : p \in FloorPages}
    \cup {Response("dict", <<>>, d, JAbsent) : d \in FloorFieldVals}
    \cup {Response("dict", <<>>, d, o) :
              d \in {JAbsent, JZero, JList(<<>>)}, o \in FloorFieldVals}

\* fetch_floor_price: docs[0]["price"] if docs else None; every exception
\* (transport, status, decoding, .get on a non-object, indexing a string,
\* a record without "price") is caught and gives None.
fetch_floor_price(r) ==
    LET d == fetch_listings(r)
    IN  IF r.kind \notin {"list", "dict"} THEN NONE
        ELSE IF ~Truthy(d) THEN NONE
        ELSE IF d.t # "list" THEN NONE
        ELSE IF d.v[1] = MISSING THEN NONE
        ELSE d.v[1]

\* ------------------------------------------------------------- fmt_floor
\* pct is kept as the exact fraction <<numerator, denominator>>.
Abs(x) == IF x < 0 THEN -x ELSE x
fmt_floor(price, floor) ==
    IF floor = NONE \/ floor = 0
    THEN [floor |-> NONE, arrow |-> "none", pct |-> <<0, 1>>]
    ELSE [floor |-> floor,
          arrow |-> IF 2000 * Abs(price - floor) < floor THEN "flat"
                    ELSE IF price < floor THEN "down" ELSE "up",
          pct   |-> <<(price - floor) * 100, floor>>]
\* price - floor with price None raises TypeError
fmt_floor_raises(price, floor) ==
    price = NONE /\ floor # NONE /\ floor # 0

\* ------------------------------------------------------ backdrop strings
PlatinumRare == <<"P","l","a","t","i","n","u","m","R","a","r","e">>
Platinum     == <<"P","l","a","t","i","n","u","m">>
Plat         == <<"P","l","a","t">>
Gold         == <<"G","o","l","d">>
BackdropNull == <<"None">>         \* JSON null: not a string at all
Backdrops    == {PlatinumRare, Platinum, Plat, Gold, <<>>, BackdropNull}

startswith(s, prefix) ==
    /\ Len(s) >= Len(prefix)
    /\ \A i \in 1 .. Len(prefix) : s[i] = prefix[i]

\* ---------------------------------------------------------- name strings
\* str.isalnum() holds of letters (of any script) and digits
Letters == {"D", "e", "s", "k", "C", "a", "l", "n", "d", "r", "Z", "é"}
Digits  == {"3"}
Alnum   == Letters \cup Digits
Chars   == {"a", "Z", "é", "3", " ", "#", "_"}

DeskCalendar == <<"D","e","s","k"," ","C","a","l","e","n","d","a","r",
                  " ","#","3">>
ShortName    == <<"a", " ", "3">>
NameNull     == <<"None">>         \* JSON null: not a string at all
Names        == SeqsUpTo(Chars, MaxName) \cup {DeskCalendar}
\* g.get("name", "") in the pipeline model: a string or null
ListingNames == {ShortName, NameNull}

\* ''.join(ch for ch in name if ch in keep)
RECURSIVE JoinKept(_, _)
JoinKept(name, keep) ==
    IF name = <<>> THEN <<>>
    ELSE (IF Head(name) \in keep THEN <<Head(name)>> ELSE <<>>)
             \o JoinKept(Tail(name), keep)

\* a normalisation that keeps letters only
normalize_name_letters(name) == JoinKept(name, Letters)

\* lines 278-280: ''.join(ch for ch in name if ch.isalnum())
normalize_name(name) == JoinKept(name, Alnum)

\* line 434 / 197: f"https://t.me/nft/{key}-{gift_num}.gif"
gif_url(key, gift_num) == <<key, gift_num>>


\* ------------------------------------------- price <= floor * 0.9 (floats)
\* The literal 0.9 is the double 0x1.ccccccccccccdp-1, i.e. Mant * 2^-53
\* with Mant = 8106479329266893.  Doubles are written here as three limbs
\* <<hi, mid, lo>> to base 2^20, in units of 2^-53.
Base == 2 ^ 20
Mant == <<7372, 838860, 838861>>

RECURSIVE BitLen(_)
BitLen(n) == IF n = 0 THEN 0 ELSE 1 + BitLen(n \div 2)

\* exact product floor * Mant
LimbMul(f) ==
    LET p0 == f * Mant[3]
        p1 == f * Mant[2] + (p0 \div Base)
        p2 == f * Mant[1] + (p1 \div Base)
    IN  <<p2, p1 % Base, p0 % Base>>

\* round to nearest, ties to even, keeping 53 significant bits
RoundDouble(x) ==
    LET d    == BitLen(x[1]) + 40 - 53
        q    == x[3] \div (2 ^ d)
        r    == x[3] % (2 ^ d)
        half == 2 ^ (d - 1)
        up   == r > half \/ (r = half /\ q % 2 = 1)
        lo   == (IF up THEN q + 1 ELSE q) * (2 ^ d)
        mid  == x[2] + (lo \div Base)
    IN  IF d <= 0 THEN x
        ELSE <<x[1] + (mid \div Base), mid % Base, lo % Base>>

\* floor * 0.9 as the double the interpreter computes
MulRatio(f) == IF f = 0 THEN <<0, 0, 0>> ELSE RoundDouble(LimbMul(f))

LimbLeq(a, b) ==
    \/ a[1] < b[1]
    \/ a[1] = b[1] /\ a[2] < b[2]
    \/ a[1] = b[1] /\ a[2] = b[2] /\ a[3] <= b[3]

\* int -> double is exact: price * 2^53 in limbs
IntLimbs(n) == <<n * (2 ^ 13), 0, 0>>

\* a strict comparison, price < floor * 0.9
BelowRatioStrict(price, floor) ==
    ~LimbLeq(MulRatio(floor), IntLimbs(price))

\* price <= floor * 0.9
BelowRatio(price, floor) == LimbLeq(IntLimbs(price), MulRatio(floor))

\* cond_all / cond_mod: floor is not None and price <= floor * 0.9
discount_cond(price, floor) == floor # NONE /\ BelowRatio(price, floor)
\* the comparison raises TypeError when price is None and floor is not
discount_raises(price, floor) == floor # NONE /\ price = NONE


\* ================================================================= state
VARIABLES
    policy,     \* "Attribute" (lines 158-226) or "Discount" (lines 389-456)
    pc,         \* where monitor() / send_alert() stands
    err,        \* the exception that left monitor(), "" while it runs
    seen,       \* seen = set()
    first_run,  \* first_run
    resp,       \* the HTTP outcome fetch_listings has just handled
    docs,       \* docs, the value fetch_listings returned
    to_proc,    \* to_proc
    idx,        \* position of the for loop in to_proc
    g,          \* the fields read from the current record
    floor_all,  \* floor_all
    floor_mod,  \* floor_model / floor_mod
    msg,        \* msg: the price and the fmt_floor results it shows
    verdict,    \* what the filter decided for the current record
    sa,         \* send_alert: attempts made and their outcomes
    idle,       \* time slept since the last bot.send_message returned
    alerted,    \* how often send_alert was called, per identifier
    evald,      \* loop positions admitted by the dedup check this cycle
    was_first,  \* value of first_run when this cycle's page arrived
    seen0,      \* value of seen when this cycle's page arrived
    queries     \* calls of fetch_floor_price made for the current record

vars == <<policy, pc, err, seen, first_run, resp, docs, to_proc, idx, g,
          floor_all, floor_mod, msg, verdict, sa, idle, alerted, evald,
          was_first, seen0, queries>>

MaxAlerts == 2      \* alerted saturates here

PriceFields == (0 .. MaxPrice) \cup {NONE, MISSING}

NoG   == [gift_num |-> NoneId, price |-> 0, has_price |-> FALSE,
          backdrop |-> <<>>, has_gift_id |-> FALSE, name |-> <<>>,
          key |-> <<>>]
NoMsg == [made |-> FALSE, price |-> 0, backdrop |-> <<>>, name |-> <<>>,
          gif_url |-> gif_url(<<>>, NoneId),
          fa |-> fmt_floor(0, NONE), fm |-> fmt_floor(0, NONE)]
NoSa  == [attempts |-> 0, first |-> "", carried |-> 0, wait |-> 0,
          second |-> ""]

FirstOutcomes ==
    {[res |-> r, wait |-> 0] : r \in {"Delivered", "TimedOut", "TelegramError"}}
    \cup {[res |-> "RetryAfter", wait |-> w] : w \in 1 .. MaxWait}
RetryOutcomes == {"Delivered", "RetryAfter", "TimedOut", "TelegramError"}

\* a sleep that returns at once
NoSleep(t, d) == t

\* asyncio.sleep(d) seen from the idle timer
Sleep(t, d) == IF t = NONE THEN NONE ELSE Min(t + d, TimeCap)

\* the arguments of the two calls: (scraper, name), (scraper, name, model)
ByName      == <<"name">>
ByNameModel == <<"name", "model">>
BothQueries == <<ByName, ByNameModel>>

\* a second call that leaves the model out
QueriedByName(q, args) == Append(q, ByName)

\* lines 423-424 / 200-201: one more call of fetch_floor_price
Queried(q, args) == Append(q, args)

Init ==
    /\ policy \in {"Attribute", "Discount"}
    /\ pc = "poll"
    /\ err = ""
    /\ seen = {}
    /\ first_run = TRUE
    /\ resp = NoResp
    /\ docs = JList(<<>>)
    /\ to_proc = <<>>
    /\ idx = 1
    /\ g = NoG
    /\ floor_all = NONE
    /\ floor_mod = NONE
    /\ msg = NoMsg
    /\ verdict = ""
    /\ sa = NoSa
    /\ idle = NONE
    /\ alerted = [i \in Ids \cup {NoneId} |-> 0]
    /\ evald = <<>>
    /\ was_first = TRUE
    /\ seen0 = {}
    /\ queries = <<>>

\* an exception propagates out of monitor() and asyncio.run()
Raise(e) == pc' = "crashed" /\ err' = e

\* ------------------------------------------------------------ the poller
\* line 400: docs = await loop.run_in_executor(None, fetch_listings, scraper)
FetchListings ==
    /\ pc = "poll"
    /\ \E r \in ListingResponses :
          /\ resp' = r
          /\ docs' = fetch_listings(r)
    /\ pc' = "check"
    /\ UNCHANGED <<policy, queries,
                   err, seen, first_run, to_proc, idx, g, floor_all,
                   floor_mod, msg, verdict, sa, idle, alerted, evald,
                   was_first, seen0>>

\* lines 401-403: if not docs: sleep and continue
PollEmpty ==
    /\ pc = "check"
    /\ ~Truthy(docs)
    /\ pc' = "interval"
    /\ resp' = NoResp
    /\ UNCHANGED <<policy, queries, err, seen, first_run, docs, to_proc, idx, g,
                   floor_all, floor_mod, msg, verdict, sa, idle, alerted,
                   evald, was_first, seen0>>

\* a poller without the startup special case
ToProcAll(first, d) == d

\* a startup case that keeps the last element of the page
ToProcLast(first, d) == IF first THEN <<d[Len(d)]>> ELSE d

\* line 406: to_proc = [docs[0]] if first_run else docs
ToProc(first, d) == IF first THEN <<d[1]>> ELSE d

\* lines 405-407 for a non-empty list
StartCycle ==
    /\ pc = "check"
    /\ Truthy(docs) /\ docs.t = "list"
    /\ to_proc' = ToProc(first_run, docs.v)
    /\ was_first' = first_run
    /\ seen0' = seen
    /\ first_run' = FALSE
    /\ idx' = 1
    /\ evald' = <<>>
    /\ pc' = "loop"
    /\ resp' = NoResp
    /\ UNCHANGED <<policy, queries,
                   err, seen, docs, g, floor_all, floor_mod, msg,
                   verdict, sa, idle, alerted>>

\* lines 405-410 for a truthy value that is not a list (a string): its
\* elements are characters, and g.get raises AttributeError
BadDocs ==
    /\ pc = "check"
    /\ Truthy(docs) /\ docs.t # "list"
    /\ first_run' = FALSE
    /\ Raise("AttributeError:410")
    /\ resp' = NoResp
    /\ UNCHANGED <<policy, queries,
                   seen, docs, to_proc, idx, g, floor_all, floor_mod,
                   msg, verdict, sa, idle, alerted, evald, was_first, seen0>>

\* line 409: the for loop is exhausted
LoopDone ==
    /\ pc = "loop"
    /\ idx > Len(to_proc)
    /\ pc' = "interval"
    /\ UNCHANGED <<policy, queries,
                   err, seen, first_run, resp, docs, to_proc, idx, g,
                   floor_all, floor_mod, msg, verdict, sa, idle, alerted,
                   evald, was_first, seen0>>

\* line 410 on an element that is not an object: g.get raises
NotARecord ==
    /\ pc = "loop"
    /\ idx <= Len(to_proc)
    /\ Raise("AttributeError:410")
    /\ UNCHANGED <<policy, queries,
                   seen, first_run, resp, docs, to_proc, idx, g,
                   floor_all, floor_mod, msg, verdict, sa, idle, alerted,
                   evald, was_first, seen0>>

\* lines 410-412: if gift_num in seen: continue
SkipSeen ==
    /\ pc = "loop"
    /\ idx <= Len(to_proc)
    /\ to_proc[idx] \in seen
    /\ idx' = idx + 1
    /\ g' = NoG /\ floor_all' = NONE /\ floor_mod' = NONE
    /\ msg' = NoMsg /\ verdict' = "seen" /\ sa' = NoSa
    /\ queries' = <<>>
    /\ UNCHANGED <<policy, pc, err, seen, first_run, resp, docs, to_proc,
                   idle, alerted, evald, was_first, seen0>>

\* a dedup check that forgets to record the identifier
AdmittedForgets(s, n) == s

\* a dedup tracker that remembers only the latest identifier
AdmittedReplaces(s, n) == {n}

\* a dedup tracker that does not record a missing identifier
AdmittedUnlessNone(s, n) == IF n = NoneId THEN s ELSE s \cup {n}

\* line 413: seen.add(gift_num)
Admitted(s, n) == s \cup {n}

\* lines 410-413 for an identifier not yet seen
Admit ==
    /\ pc = "loop"
    /\ idx <= Len(to_proc)
    /\ to_proc[idx] \notin seen
    /\ seen' = Admitted(seen, to_proc[idx])
    /\ evald' = Append(evald, idx)
    /\ g' = [NoG EXCEPT !.gift_num = to_proc[idx]]
    /\ floor_all' = NONE /\ floor_mod' = NONE
    /\ msg' = NoMsg /\ verdict' = "" /\ sa' = NoSa
    /\ queries' = <<>>
    /\ pc' = "read"
    /\ UNCHANGED <<policy, err, first_run, resp, docs, to_proc, idx, idle,
                   alerted, was_first, seen0>>


\* continue with the next element of to_proc; b is the backdrop the
\* decision was taken on, <<>> where none was looked at
ContinueOn(v, b) ==
    /\ verdict' = v
    /\ idx' = idx + 1
    /\ pc' = "loop"
    /\ err' = err
    /\ g' = [NoG EXCEPT !.gift_num = g.gift_num, !.backdrop = b]
    /\ floor_all' = NONE /\ floor_mod' = NONE

Continue(v) == ContinueOn(v, <<>>)

Price(f) == IF f = MISSING THEN 0 ELSE f      \* g.get("price", 0)

\* lines 415-419 (Discount): the fields of g are read, nothing is decided
ReadFieldsDiscount ==
    /\ pc = "read"
    /\ policy = "Discount"
    /\ \E f \in PriceFields, nm \in ListingNames :
          g' = [g EXCEPT !.price = Price(f), !.has_price = (f # MISSING),
                         !.name = nm]
    /\ pc' = "key"
    /\ UNCHANGED <<policy, queries,
                   err, seen, first_run, resp, docs, to_proc, idx,
                   floor_all, floor_mod, msg, verdict, sa, idle, alerted,
                   evald, was_first, seen0>>

\* a filter that compares for equality
backdrop_equals(b) == b = Platinum

\* line 191: backdrop.startswith("Platinum")
backdrop_matches(b) == startswith(b, Platinum)

\* lines 184-195 (Attribute): backdrop filter, g["gift_id"].  The price
\* read at line 188 is first used by fmt_floor at lines 203-204 and is
\* drawn there.
ReadFieldsAttribute ==
    /\ pc = "read"
    /\ policy = "Attribute"
    /\ \E b \in Backdrops, gid \in BOOLEAN, nm \in ListingNames :
          LET rec == [g EXCEPT !.backdrop = b]
          IN  IF b = BackdropNull
              THEN /\ g' = rec
                   /\ Raise("AttributeError:191")
                   /\ UNCHANGED <<verdict, idx, floor_all, floor_mod>>
              ELSE IF ~backdrop_matches(b)
              THEN ContinueOn("rejected", b)
              ELSE IF ~gid
              THEN /\ g' = rec
                   /\ Raise("KeyError:195")
                   /\ UNCHANGED <<verdict, idx, floor_all, floor_mod>>
              ELSE /\ g' = [rec EXCEPT !.has_gift_id = TRUE, !.name = nm]
                   /\ pc' = "key"
                   /\ UNCHANGED <<err, verdict, idx, floor_all, floor_mod>>
    /\ UNCHANGED <<policy, queries,
                   seen, first_run, resp, docs, to_proc, msg, sa,
                   idle, alerted, evald, was_first, seen0>>

\* line 420 / 197: normalize_name(name); iterating over None raises
NormalizeName ==
    /\ pc = "key"
    /\ IF g.name = NameNull
       THEN /\ Raise(IF policy = "Discount" THEN "TypeError:420"
                                            ELSE "TypeError:197")
            /\ UNCHANGED g
       ELSE /\ g' = [g EXCEPT !.key = normalize_name(g.name)]
            /\ pc' = "floor_all"
            /\ UNCHANGED err
    /\ UNCHANGED <<policy, queries, seen, first_run, resp, docs, to_proc, idx,
                   floor_all, floor_mod, msg, verdict, sa, idle, alerted,
                   evald, was_first, seen0>>

\* line 423 / 200: floor_all = fetch_floor_price(scraper, name)
FloorAll ==
    /\ pc = "floor_all"
    /\ \E r \in FloorResponses : floor_all' = fetch_floor_price(r)
    /\ queries' = Queried(queries, ByName)
    /\ pc' = "floor_mod"
    /\ UNCHANGED <<policy, err, seen, first_run, resp, docs, to_proc, idx, g,
                   floor_mod, msg, verdict, sa, idle, alerted, evald,
                   was_first, seen0>>

\* line 424 / 201: floor_mod = fetch_floor_price(scraper, name, model)
FloorMod ==
    /\ pc = "floor_mod"
    /\ \E r \in FloorResponses : floor_mod' = fetch_floor_price(r)
    /\ queries' = Queried(queries, ByNameModel)
    /\ pc' = "evaluate"
    /\ UNCHANGED <<policy, err, seen, first_run, resp, docs, to_proc, idx, g,
                   floor_all, msg, verdict, sa, idle, alerted, evald,
                   was_first, seen0>>

\* lines 436-454 / 203-224: msg is built and send_alert is called for the
\* current record.  From here on only msg is read; the price, the backdrop
\* and the floors are dropped from the state.
CallSendAlert(price) ==
    /\ verdict' = "alert"
    /\ msg' = [made |-> TRUE, price |-> price, backdrop |-> g.backdrop,
               name |-> g.name, gif_url |-> gif_url(g.key, g.gift_num),
               fa |-> fmt_floor(price, floor_all),
               fm |-> fmt_floor(price, floor_mod)]
    /\ g' = [NoG EXCEPT !.gift_num = g.gift_num, !.has_gift_id = TRUE]
    /\ floor_all' = NONE /\ floor_mod' = NONE
    /\ alerted' = [alerted EXCEPT
                     ![g.gift_num] = Min(alerted[g.gift_num] + 1, MaxAlerts)]
    /\ pc' = "send1"
    /\ err' = err

\* lines 427-429: cond_all or cond_mod
discount_alert(price, fa, fm) ==
    discount_cond(price, fa) \/ discount_cond(price, fm)

\* lines 427-454 (Discount): threshold, g['gift_id'], fmt_floor, send_alert
EvaluateDiscount ==
    /\ pc = "evaluate"
    /\ policy = "Discount"
    /\ IF discount_raises(g.price, floor_all)
          \/ discount_raises(g.price, floor_mod)
       THEN /\ Raise("TypeError:427")
            /\ UNCHANGED <<g, msg, verdict, idx, alerted, floor_all,
                           floor_mod>>
       ELSE IF ~discount_alert(g.price, floor_all, floor_mod)
       THEN /\ Continue("rejected")
            /\ UNCHANGED <<msg, alerted>>
       ELSE \E gid \in BOOLEAN :
              IF ~gid
              THEN /\ Raise("KeyError:433")
                   /\ verdict' = "alert"
                   /\ UNCHANGED <<g, msg, idx, alerted, floor_all,
                                  floor_mod>>
              ELSE /\ CallSendAlert(g.price)
                   /\ UNCHANGED idx
    /\ UNCHANGED <<policy, queries,
                   seen, first_run, resp, docs, to_proc, sa, idle,
                   evald, was_first, seen0>>

\* lines 203-224 (Attribute): fmt_floor twice, send_alert
FormatAttribute ==
    /\ pc = "evaluate"
    /\ policy = "Attribute"
    /\ \E f \in PriceFields :
          IF fmt_floor_raises(Price(f), floor_all)
             \/ fmt_floor_raises(Price(f), floor_mod)
          THEN /\ Raise("TypeError:153")
               /\ UNCHANGED <<g, floor_all, floor_mod, msg, verdict, alerted>>
          ELSE CallSendAlert(Price(f))
    /\ UNCHANGED <<policy, queries,
                   seen, first_run, resp, docs, to_proc, idx, sa,
                   idle, evald, was_first, seen0>>

\* ------------------------------------------------------------ send_alert
\* a send_alert that also retries after a generic Telegram error
first_attempt_next_retry_all(res) ==
    IF res = "Delivered" THEN "throttle" ELSE "retry_sleep"

\* a send_alert that returns from the generic-error handler without the
\* final sleep
first_attempt_next_no_throttle(res) ==
    CASE res = "Delivered"     -> "throttle"
      [] res = "RetryAfter"    -> "retry_sleep"
      [] res = "TimedOut"      -> "retry_sleep"
      [] res = "TelegramError" -> "loop"

\* where send_alert goes after its first bot.send_message (lines 348-375)
first_attempt_next(res) ==
    CASE res = "Delivered"     -> "throttle"
      [] res = "RetryAfter"    -> "retry_sleep"
      [] res = "TimedOut"      -> "retry_sleep"
      [] res = "TelegramError" -> "throttle"

\* lines 357 / 366: the sleep before the second attempt
retry_wait(o) == IF o.res = "RetryAfter" THEN o.wait ELSE TIMEOUT_SLEEP

\* lines 348-355: first attempt and the except clause it selects.  The
\* text has been handed to the notifier and is dropped from the state.
SendFirst ==
    /\ pc = "send1"
    /\ \E o \in FirstOutcomes :
          /\ sa' = [attempts |-> 1, first |-> o.res, second |-> "",
                    carried |-> o.wait,
                    wait |-> IF first_attempt_next(o.res) = "retry_sleep"
                             THEN retry_wait(o) ELSE 0]
          /\ pc' = first_attempt_next(o.res)
    /\ idle' = 0
    /\ msg' = NoMsg
    /\ UNCHANGED <<policy, queries,
                   err, seen, first_run, resp, docs, to_proc, idx, g,
                   floor_all, floor_mod, verdict, alerted, evald, was_first,
                   seen0>>

\* lines 357 / 366: await asyncio.sleep(...)
RetrySleep ==
    /\ pc = "retry_sleep"
    /\ idle' = Sleep(idle, sa.wait)
    /\ pc' = "send2"
    /\ UNCHANGED <<policy, queries,
                   err, seen, first_run, resp, docs, to_proc, idx, g,
                   floor_all, floor_mod, msg, verdict, sa, alerted, evald,
                   was_first, seen0>>

\* lines 358-364 / 367-373: the second bot.send_message runs inside an
\* except clause, so nothing catches what it raises
SendRetry ==
    /\ pc = "send2"
    /\ \E r \in RetryOutcomes :
          /\ sa' = [sa EXCEPT !.attempts = 2, !.second = r]
          /\ IF r = "Delivered"
             THEN pc' = "throttle" /\ err' = err
             ELSE Raise(r)
    /\ idle' = 0
    /\ UNCHANGED <<policy, queries,
                   seen, first_run, resp, docs, to_proc, idx, g,
                   floor_all, floor_mod, msg, verdict, alerted, evald,
                   was_first, seen0>>

\* line 377: await asyncio.sleep(3), then back in the for loop
Throttle ==
    /\ pc = "throttle"
    /\ idle' = Sleep(idle, THROTTLE_SLEEP)
    /\ idx' = idx + 1
    /\ pc' = "loop"
    /\ sa' = NoSa
    /\ UNCHANGED <<policy, queries,
                   err, seen, first_run, resp, docs, to_proc, g,
                   floor_all, floor_mod, msg, verdict, alerted, evald,
                   was_first, seen0>>

\* lines 402 / 456: await asyncio.sleep(POLL_INTERVAL), next iteration;
\* nothing of the finished cycle is read again
IntervalSleep ==
    /\ pc = "interval"
    /\ idle' = Sleep(idle, POLL_INTERVAL)
    /\ pc' = "poll"
    /\ docs' = JList(<<>>) /\ to_proc' = <<>> /\ idx' = 1
    /\ g' = NoG /\ floor_all' = NONE /\ floor_mod' = NONE
    /\ msg' = NoMsg /\ verdict' = "" /\ sa' = NoSa /\ evald' = <<>>
    /\ was_first' = TRUE /\ seen0' = {} /\ queries' = <<>>
    /\ UNCHANGED <<policy, err, seen, first_run, resp, alerted>>

Next ==
    \/ FetchListings
    \/ PollEmpty
    \/ StartCycle
    \/ BadDocs
    \/ LoopDone
    \/ NotARecord
    \/ SkipSeen
    \/ Admit
    \/ ReadFieldsDiscount
    \/ ReadFieldsAttribute
    \/ NormalizeName
    \/ FloorAll
    \/ FloorMod
    \/ EvaluateDiscount
    \/ FormatAttribute
    \/ SendFirst
    \/ RetrySleep
    \/ SendRetry
    \/ Throttle
    \/ IntervalSleep

Spec == Init /\ [][Next]_vars

\* The event loop runs the one coroutine whenever it can continue: every
\* await (network call, sleep) returns or raises.
FairSpec == Spec /\ WF_vars(Next)


\* ================================================================ claims

\* C1: send_alert is called at most once per listing identifier in the
\* process lifetime; a listing whose identifier is already in seen is
\* skipped without delivery.
C1_AtMostOneAlertPerId ==
    /\ \A i \in DOMAIN alerted : alerted[i] <= 1
    /\ verdict = "seen" =>
          /\ pc \in {"loop", "interval", "crashed"}
          /\ ~msg.made /\ sa.attempts = 0

\* C1 witness: an identifier that was alerted earlier reappears in a later
\* page and is skipped.
C1_Witness ==
    /\ verdict = "seen"
    /\ idx > 1
    /\ alerted[to_proc[idx - 1]] = 1
    /\ to_proc[idx - 1] \in seen0

\* C2 (as claimed): when the first attempt was throttled or timed out and
\* the retry fails too, no exception leaves send_alert and monitor() goes
\* on with the next listing.
C2_RetryFailureDropped ==
    (sa.attempts = 2 /\ sa.second # "Delivered") =>
        (pc # "crashed" /\ err = "")

\* C3 (as claimed): monitor() never stops; a new poll always begins again.
C3_AlwaysPollsAgain == []<>(pc = "poll")

\* positions of to_proc whose dedup check has run in this cycle
Checked(i) == IF pc = "loop" \/ pc = "interval" THEN i < idx ELSE i <= idx
FirstOccurrence(i) == \A j \in 1 .. (i - 1) : to_proc[j] # to_proc[i]
InCycle == pc \in {"loop", "read", "key", "floor_all", "floor_mod", "evaluate",
                   "send1", "retry_sleep", "send2", "throttle"}
           \/ (pc = "interval" /\ to_proc # <<>>)

\* C4: on the first non-empty poll exactly the first element of the page is
\* passed on; on every later non-empty poll the listings passed on are, in
\* page order, those of the page whose identifier was not yet seen.
C4_Forwarding ==
    InCycle =>
        /\ was_first <=> seen0 = {}
        /\ was_first => to_proc = <<docs.v[1]>>
        /\ ~was_first => to_proc = docs.v
        /\ \A k \in 1 .. (Len(evald) - 1) : evald[k] < evald[k + 1]
        /\ \A i \in 1 .. Len(to_proc) :
              Checked(i) =>
                  ((\E k \in 1 .. Len(evald) : evald[k] = i)
                     <=> (to_proc[i] \notin seen0 /\ FirstOccurrence(i)))

\* C4 witness: a later cycle over a page of two listings not seen before
\* has ended, and both were passed on, in page order.
C4_Witness ==
    /\ pc = "interval"
    /\ ~was_first
    /\ seen0 # {}
    /\ Len(docs.v) = 2
    /\ evald = <<1, 2>>

\* C4 witness with a seen listing: a later cycle over a two-element page
\* has ended; its first listing was already seen and only its second one
\* was passed on.
C4_WitnessSkip ==
    /\ pc = "interval"
    /\ ~was_first
    /\ Len(docs.v) = 2
    /\ evald = <<2>>

\* C4 witness on the first non-empty poll: a two-element page, of which
\* only the first element was passed on.
C4_WitnessFirst ==
    /\ pc = "interval"
    /\ was_first
    /\ Len(docs.v) = 2
    /\ evald = <<1>>

\* C5: Delivered and a generic error give one attempt; RetryAfter and
\* TimedOut give exactly two, the second only after a sleep of the carried
\* wait (RetryAfter) or of 5 (TimedOut); never more than two attempts.
C5_Attempts ==
    /\ sa.attempts <= 2
    /\ pc = "retry_sleep" =>
          sa.attempts = 1 /\ sa.first \in {"RetryAfter", "TimedOut"}
    /\ pc = "send2" =>
          /\ sa.attempts = 1
          /\ sa.first \in {"RetryAfter", "TimedOut"}
          /\ sa.first = "RetryAfter" => idle >= sa.carried
          /\ sa.first = "TimedOut" => idle >= TIMEOUT_SLEEP
    /\ (pc = "throttle" \/ (pc = "loop" /\ sa.attempts > 0)) =>
          /\ sa.first \in {"Delivered", "TelegramError"} => sa.attempts = 1
          /\ sa.first \in {"RetryAfter", "TimedOut"} => sa.attempts = 2
    /\ sa.attempts = 2 => sa.first \in {"RetryAfter", "TimedOut"}

\* C5 witness: a first attempt throttled with wait 5, retried once and
\* delivered.
C5_Witness ==
    /\ pc = "throttle"
    /\ sa.first = "RetryAfter" /\ sa.carried = 5
    /\ sa.attempts = 2 /\ sa.second = "Delivered"

\* C6: when a delivery for a listing begins after an earlier send_alert
\* call, at least 3 time units have been slept since that call's last
\* attempt.
C6_Pacing ==
    (pc = "send1" /\ idle # NONE) => idle >= THROTTLE_SLEEP

\* C6 witness: the next delivery begins exactly 3 time units after the
\* previous send_alert made its last attempt.
C6_Witness ==
    pc = "send1" /\ idle = THROTTLE_SLEEP

\* C7 (as claimed): a listing whose price is zero or missing is never
\* alerted and no percentage is computed from it.
C7_ZeroPriceSkipped ==
    msg.made => msg.price # 0

\* C8 (as claimed): under Discount a floor that is None or zero never makes
\* the condition true and is formatted with delta 0; the listing alerts iff
\* some floor is present, nonzero and price <= floor * 0.9.
UsableFloor(f) == f # NONE /\ f # 0
UsableDiscount(price, fa, fm) ==
    \E f \in {fa, fm} : UsableFloor(f) /\ 10 * price <= 9 * f
C8_ZeroFloorNeverAlerts ==
    [][(pc = "evaluate" /\ policy = "Discount" /\ g.price # NONE) =>
          /\ pc' = "send1" =>
                UsableDiscount(g.price, floor_all, floor_mod)
          /\ UsableDiscount(g.price, floor_all, floor_mod) =>
                verdict' = "alert"
          /\ (msg'.made /\ ~UsableFloor(floor_all)) => msg'.fa.pct[1] = 0
          /\ (msg'.made /\ ~UsableFloor(floor_mod)) => msg'.fm.pct[1] = 0
      ]_vars

\* C10 (as claimed): fetch_listings returns the list itself for a bare
\* list, the sequence under data (else docs) for an envelope, and the
\* empty sequence for everything else, including an envelope whose
\* data/docs field is not a sequence.
IsSeq(j) == j.t = "list"
C10_FetchListingsContract ==
    pc = "check" =>
        /\ IsSeq(docs)
        /\ resp.kind = "list" => docs.v = resp.list
        /\ resp.kind \notin {"list", "dict"} => docs.v = <<>>
        /\ resp.kind = "dict" =>
              /\ (IsSeq(resp.data) /\ resp.data.v # <<>>) =>
                    docs.v = resp.data.v
              /\ (resp.data = JAbsent /\ IsSeq(resp.docs)) =>
                    docs.v = resp.docs.v
              /\ (~IsSeq(resp.data) /\ ~IsSeq(resp.docs)) => docs.v = <<>>


\* ------------------------------------------------ the threshold in detail
\* monitor() under Discount just before line 427, for one admitted listing
\* with an integer price and two integer floors in 1 .. MaxNum.
InitThreshold ==
    /\ policy = "Discount"
    /\ pc = "evaluate"
    /\ err = ""
    /\ seen = {1}
    /\ first_run = FALSE
    /\ resp = NoResp
    /\ docs = JList(<<1>>)
    /\ to_proc = <<1>>
    /\ idx = 1
    /\ \E p \in 1 .. MaxNum :
          g = [NoG EXCEPT !.gift_num = 1, !.price = p, !.has_price = TRUE]
    /\ floor_all \in 1 .. MaxNum
    /\ floor_mod \in 1 .. MaxNum
    /\ msg = NoMsg
    /\ verdict = ""
    /\ sa = NoSa
    /\ idle = NONE
    /\ alerted = [i \in Ids \cup {NoneId} |-> 0]
    /\ evald = <<1>>
    /\ was_first = TRUE
    /\ seen0 = {}
    /\ queries = BothQueries

NextThreshold == EvaluateDiscount

SpecThreshold == InitThreshold /\ [][NextThreshold]_vars

\* C9: under Discount, for positive integer prices and floors, the listing
\* is handed to send_alert iff 10 * price <= 9 * floor_all or
\* 10 * price <= 9 * floor_mod, the boundary included (a listing without
\* "gift_id" raises KeyError instead of being delivered).
ExactDiscount == \/ 10 * g.price <= 9 * floor_all
                 \/ 10 * g.price <= 9 * floor_mod
C9_DiscountBoundary ==
    [][(pc = "evaluate" /\ policy = "Discount"
          /\ g.price >= 1 /\ floor_all >= 1 /\ floor_mod >= 1) =>
          /\ ExactDiscount =>
                /\ verdict' = "alert"
                /\ pc' = "send1" \/ err' = "KeyError:433"
                /\ pc' = "send1" =>
                      /\ msg'.made /\ msg'.price = g.price
                      /\ alerted'[g.gift_num] = alerted[g.gift_num] + 1
          /\ ~ExactDiscount =>
                /\ verdict' = "rejected" /\ pc' = "loop"
                /\ ~msg'.made /\ alerted' = alerted
      ]_vars

\* C9 witness: price 81 against both floors 90 is delivered.
C9_Witness ==
    /\ pc = "send1" /\ verdict = "alert"
    /\ msg.made /\ msg.price = 81
    /\ msg.fa.floor = 90 /\ msg.fm.floor = 90

\* ------------------------------------------- fetch_floor_price in detail
\* monitor() under Discount at line 423, for one admitted listing; the two
\* calls of fetch_floor_price are taken in two steps each, the response
\* arriving and the function returning.
InitFloor ==
    /\ policy = "Discount"
    /\ pc = "floor_all"
    /\ err = ""
    /\ seen = {1}
    /\ first_run = FALSE
    /\ resp = NoResp
    /\ docs = JList(<<1>>)
    /\ to_proc = <<1>>
    /\ idx = 1
    /\ g = [NoG EXCEPT !.gift_num = 1, !.price = MaxPrice, !.has_price = TRUE]
    /\ floor_all = NONE
    /\ floor_mod = NONE
    /\ msg = NoMsg
    /\ verdict = ""
    /\ sa = NoSa
    /\ idle = NONE
    /\ alerted = [i \in Ids \cup {NoneId} |-> 0]
    /\ evald = <<1>>
    /\ was_first = TRUE
    /\ seen0 = {}
    /\ queries = <<>>

\* lines 334-336: scraper.post / raise_for_status / resp.json() have run
FloorRequest ==
    /\ pc \in {"floor_all", "floor_mod"}
    /\ resp = NoResp
    /\ resp' \in FloorResponses
    /\ UNCHANGED <<policy, queries,
                   pc, err, seen, first_run, docs, to_proc, idx, g,
                   floor_all, floor_mod, msg, verdict, sa, idle, alerted,
                   evald, was_first, seen0>>

\* lines 337-343: fetch_floor_price returns to line 423 / 424
FloorReturn ==
    /\ pc \in {"floor_all", "floor_mod"}
    /\ resp # NoResp
    /\ IF pc = "floor_all"
       THEN /\ floor_all' = fetch_floor_price(resp)
            /\ queries' = Queried(queries, ByName)
            /\ pc' = "floor_mod"
            /\ UNCHANGED floor_mod
       ELSE /\ floor_mod' = fetch_floor_price(resp)
            /\ queries' = Queried(queries, ByNameModel)
            /\ pc' = "evaluate"
            /\ UNCHANGED floor_all
    /\ resp' = NoResp
    /\ UNCHANGED <<policy, err, seen, first_run, docs, to_proc, idx, g, msg,
                   verdict, sa, idle, alerted, evald, was_first, seen0>>

NextFloor == FloorRequest \/ FloorReturn

SpecFloor == InitFloor /\ [][NextFloor]_vars

\* the records a response carries: the list itself, or the list under
\* "data", else under "docs"
FloorRecords(r) ==
    CASE r.kind = "list" -> r.list
      [] r.kind = "dict" ->
            IF r.data.t = "list" /\ r.data.v # <<>> THEN r.data.v
            ELSE IF r.data.t # "str" /\ r.docs.t = "list" THEN r.docs.v
            ELSE <<>>
      [] OTHER -> <<>>

\* C11 (as claimed): fetch_floor_price returns None when nothing matches,
\* when the lowest price is zero and on every fault; otherwise the price of
\* the first record.
ClaimedFloor(r) ==
    LET recs == FloorRecords(r)
    IN  IF recs = <<>> THEN NONE
        ELSE IF recs[1] \in {MISSING, NONE, 0} THEN NONE
        ELSE recs[1]
C11_FloorPriceContract ==
    [][(pc \in {"floor_all", "floor_mod"} /\ resp # NoResp) =>
          /\ pc = "floor_all" => floor_all' = ClaimedFloor(resp)
          /\ pc = "floor_mod" => floor_mod' = ClaimedFloor(resp)
          /\ err' = ""
      ]_vars

\* C12: monitor() is one coroutine that awaits each operation in turn.  A
\* poll begins only out of the interval sleep, which lasts POLL_INTERVAL;
\* the sleep is entered only when the page was empty or every element of
\* to_proc has been handled with no delivery pending, and every cycle,
\* empty or not, alerting or not, ends in it.
C12_Sequential ==
    [][/\ pc' = "poll" =>
             /\ pc = "interval"
             /\ idle # NONE => idle' = Min(idle + POLL_INTERVAL, TimeCap)
       /\ pc = "interval" => pc' = "poll"
       /\ (pc = "check" /\ ~Truthy(docs)) => pc' = "interval"
       /\ (pc = "loop" /\ idx > Len(to_proc)) => pc' = "interval"
       /\ pc' = "interval" =>
             /\ pc \in {"check", "loop"}
             /\ idx' > Len(to_proc')
             /\ sa'.attempts = 0 /\ ~msg'.made
      ]_vars

\* C12 witness: a cycle that delivered an alert was followed by the
\* interval sleep, and the cycle after it, which delivered nothing, by the
\* interval sleep again.
C12_Witness ==
    /\ pc = "poll"
    /\ idle = THROTTLE_SLEEP + 2 * POLL_INTERVAL
    /\ \E i \in DOMAIN alerted : alerted[i] = 1

\* C13: under the backdrop filter a forwarded, not yet seen listing is
\* rejected exactly when its backdrop does not start with "Platinum" (a
\* missing backdrop is the empty string); one that passes goes on to the
\* floor queries and is then handed to send_alert whatever the price and
\* the floors are (a record without "gift_id", or with a null price next to
\* a nonzero floor, raises instead).
C13_AttributeFilter ==
    [][policy = "Attribute" =>
          /\ pc = "read" =>
                /\ verdict' = "rejected" =>
                      /\ ~startswith(g'.backdrop, Platinum)
                      /\ pc' = "loop" /\ alerted' = alerted /\ ~msg'.made
                /\ startswith(g'.backdrop, Platinum) =>
                      /\ verdict' # "rejected"
                      /\ pc' = "key" \/ err' = "KeyError:195"
                /\ pc' = "key" => startswith(g'.backdrop, Platinum)
          /\ pc = "evaluate" =>
                \/ /\ pc' = "send1" /\ verdict' = "alert"
                   /\ msg'.made /\ msg'.backdrop = g.backdrop
                   /\ alerted'[g.gift_num] = alerted[g.gift_num] + 1
                \/ err' = "TypeError:153"
          /\ msg'.made => startswith(msg'.backdrop, Platinum)
      ]_vars

\* C13 witness: a listing with backdrop "PlatinumRare" is handed to
\* send_alert although neither floor query gave a usable floor.
C13_Witness ==
    /\ policy = "Attribute" /\ pc = "send1"
    /\ msg.backdrop = PlatinumRare
    /\ msg.fa.floor = NONE /\ msg.fm.floor = NONE

\* C13 witness for a rejection: a listing with backdrop "Gold" was skipped.
C13_WitnessGold ==
    /\ policy = "Attribute" /\ pc = "loop"
    /\ verdict = "rejected" /\ g.backdrop = Gold

\* C14: seen only grows: every step leaves all members in place, and the
\* one step that changes seen inserts exactly the identifier of the current
\* element, which was not a member.
C14_SeenMonotone ==
    [][/\ seen \subseteq seen'
       /\ seen' # seen =>
             /\ pc = "loop" /\ idx <= Len(to_proc)
             /\ to_proc[idx] \notin seen
             /\ seen' = seen \cup {to_proc[idx]}
      ]_vars

\* C14 witness: seen has grown over more than one cycle and holds every
\* identifier the marketplace can show.
C14_Witness ==
    /\ seen = Elems
    /\ seen0 # {} /\ seen0 # seen

\* ------------------------------------------- the normalisation in detail
\* monitor() just before line 420 (197), for one admitted listing whose
\* name is any string over Chars of length up to MaxName, or
\* "Desk Calendar #3"; under Attribute the listing has passed line 195.
InitName ==
    /\ policy \in {"Attribute", "Discount"}
    /\ pc = "key"
    /\ err = ""
    /\ first_run = FALSE
    /\ resp = NoResp
    /\ idx = 1
    /\ \E n \in Elems, nm \in Names, p \in 0 .. MaxPrice :
          /\ seen = {n}
          /\ docs = JList(<<n>>)
          /\ to_proc = <<n>>
          /\ g = IF policy = "Discount"
                 THEN [NoG EXCEPT !.gift_num = n, !.name = nm, !.price = p,
                                  !.has_price = TRUE]
                 ELSE [NoG EXCEPT !.gift_num = n, !.name = nm,
                                  !.backdrop = Platinum,
                                  !.has_gift_id = TRUE]
    /\ floor_all = NONE
    /\ floor_mod = NONE
    /\ msg = NoMsg
    /\ verdict = ""
    /\ sa = NoSa
    /\ idle = NONE
    /\ alerted = [i \in Ids \cup {NoneId} |-> 0]
    /\ evald = <<1>>
    /\ was_first = TRUE
    /\ seen0 = {}
    /\ queries = <<>>

NextName ==
    \/ NormalizeName
    \/ FloorAll
    \/ FloorMod
    \/ EvaluateDiscount
    \/ FormatAttribute

SpecName == InitName /\ [][NextName]_vars

\* r holds exactly the alphanumeric characters of s, in their order: the
\* i-th character of s, when alphanumeric, sits in r at the position given
\* by the number of alphanumeric characters of s up to i.
AlnumUpTo(s, i) == Cardinality({j \in 1 .. i : s[j] \in Alnum})
IsAlnumSubseq(r, s) ==
    /\ Len(r) = AlnumUpTo(s, Len(s))
    /\ \A i \in 1 .. Len(s) : s[i] \in Alnum => r[AlnumUpTo(s, i)] = s[i]

\* C15: the key computed by normalize_name holds exactly the alphanumeric
\* characters of the name in their order, normalising it again changes
\* nothing, and the preview link of the alert is built from that key and
\* the listing identifier.
C15_NormalizeName ==
    [][/\ (pc = "key" /\ pc' = "floor_all") =>
             /\ IsAlnumSubseq(g'.key, g.name)
             /\ normalize_name(g'.key) = g'.key
             /\ g'.name = g.name
       /\ (pc = "evaluate" /\ pc' = "send1") =>
             /\ msg'.name = g.name
             /\ msg'.gif_url[2] = g.gift_num
             /\ IsAlnumSubseq(msg'.gif_url[1], g.name)
      ]_vars

\* C15 witness: an alert for the listing named "Desk Calendar #3" carries
\* the key "DeskCalendar3" in its preview link.
C15_Witness ==
    /\ pc = "send1" /\ msg.made
    /\ msg.name = DeskCalendar
    /\ msg.gif_url[1] = <<"D","e","s","k","C","a","l","e","n","d","a","r","3">>

C16_WitnessNoQuery ==
    /\ policy = "Attribute" /\ pc = "loop" /\ verdict = "rejected"
    /\ idx = 2 /\ queries = <<>>

\* C16 witness for a reject under Discount: both floor queries were made.
C16_WitnessDiscount ==
    /\ policy = "Discount" /\ pc = "loop" /\ verdict = "rejected"
    /\ queries = <<ByName, ByNameModel>>

\* C17: the identifier is put into seen by the step that begins a
\* listing's evaluation, and that step needs it not to be there; send_alert
\* is called for an identifier only within that one evaluation, so not for
\* one that was in seen when the page arrived or that stood earlier in the
\* page, whatever the policy would say of it now.
C17_EvaluatedOnce ==
    [][/\ pc' = "read" =>
             /\ pc = "loop"
             /\ to_proc[idx] \notin seen /\ to_proc[idx] \in seen'
       /\ pc \in {"read", "key", "floor_all", "floor_mod", "evaluate"} =>
             (g.gift_num = to_proc[idx] /\ g.gift_num \in seen)
       /\ \A i \in DOMAIN alerted :
             alerted'[i] # alerted[i] =>
                 /\ pc = "evaluate" /\ i = g.gift_num
                 /\ i \in seen /\ i \notin seen0
                 /\ evald # <<>> /\ evald[Len(evald)] = idx
                 /\ FirstOccurrence(idx)
                 /\ alerted[i] = 0
      ]_vars

\* C17 witness: a listing that was evaluated in an earlier cycle and not
\* alerted is in the page again and is skipped.
C17_Witness ==
    /\ verdict = "seen" /\ pc = "loop"
    /\ idx > 1
    /\ to_proc[idx - 1] \in seen0
    /\ alerted[to_proc[idx - 1]] = 0

\* C18: first_run stays set through polls that give nothing and is cleared
\* by the first poll that gives a page; while it is set seen is empty.  In
\* the cycle of that first page, once its element has been handled, seen
\* holds exactly the identifier of docs[0]; in the cycle after it every
\* listing with another identifier is evaluated at its first place in the
\* page.
C18_FirstRun ==
    [][/\ first_run => (seen = {} /\ pc \in {"poll", "check", "interval"})
       /\ (pc = "poll" \/ pc = "interval") => first_run' = first_run
       /\ (pc = "check" /\ ~Truthy(docs)) =>
             (first_run' = first_run /\ seen' = seen)
       /\ (pc = "check" /\ Truthy(docs)) => ~first_run'
       /\ (InCycle /\ was_first /\ Checked(1)) =>
             (to_proc = <<docs.v[1]>> /\ seen = {docs.v[1]})
       /\ (InCycle /\ ~was_first /\ Cardinality(seen0) = 1) =>
             \A i \in 1 .. Len(to_proc) :
                 (Checked(i) /\ to_proc[i] \notin seen0
                    /\ FirstOccurrence(i)) =>
                     \E k \in 1 .. Len(evald) : evald[k] = i
      ]_vars

\* C18 witness: the cycle after the first page has ended; seen held one
\* identifier when its page of two arrived, the first listing of the page
\* was that one and the second listing was evaluated.
C18_Witness ==
    /\ pc = "interval" /\ ~was_first
    /\ Cardinality(seen0) = 1
    /\ Len(docs.v) = 2
    /\ docs.v[1] \in seen0
    /\ evald = <<2>>
    /\ Cardinality(seen) = 2

\* C18 witness for the flag: after a poll that gave nothing the flag is
\* still set.
C18_WitnessEmpty ==
    /\ pc = "interval" /\ first_run /\ seen = {}

====
